---- MODULE Spec2Model ----
(***************************************************************************)
(* A model of the colour-space conversions of colors/spaces.py and of the  *)
(* Color holder of colors/core.py.                                         *)
(*                                                                         *)
(* Arithmetic.  The program computes in binary floating point.  The model  *)
(* computes the same expressions, in the same order, on rationals: a       *)
(* finite number is (n/d) * 10^e.  Of the rounding of binary64 the model   *)
(* keeps the one case it can decide exactly: an addend smaller than half   *)
(* an ulp of the other operand is absorbed (x + y is y); every other       *)
(* operation is computed exactly.  What is modelled of the number          *)
(* representation is                                                       *)
(*   - whether a number is a Python number or a numpy.float64 scalar (the  *)
(*     two differ on division by zero: ZeroDivisionError against nan/inf), *)
(*   - nan and the infinities,                                             *)
(*   - the exception ZeroDivisionError, which aborts the whole conversion. *)
(* A function of the program whose value is irrational at some argument    *)
(* (cube root, the 2.4 power, square root, atan2, cos, sin) is computed    *)
(* where its value is rational and is "unrep" elsewhere; so is a number    *)
(* whose numerator or denominator exceeds NumCap.  An operation whose      *)
(* result holds an unrep component is outside the model: its action is not *)
(* enabled.                                                                *)
(***************************************************************************)
EXTENDS Integers, Sequences, FiniteSets, TLC

\* ------------------------------------------------------------------------
\* Bounds of the model
\* ------------------------------------------------------------------------
\* largest numerator, denominator and power of ten the model represents
NumCap == 2000000000
\* largest decimal exponent difference aligned in an addition
MaxShift == 8
\* decimal exponent difference from which the smaller operand of an addition
\* is below half an ulp of the larger: NumCap^2 * 10^-Absorb < 2^-54
Absorb == 35
\* in-place gamma steps followed on one sRGB object
MaxGamma == 2
\* conversions chained from one constructed value
MaxChain == 3

\* ------------------------------------------------------------------------
\* Integers
\* ------------------------------------------------------------------------
IAbs(i) == IF i < 0 THEN -i ELSE i

ISign(i) == IF i < 0 THEN -1 ELSE IF i = 0 THEN 0 ELSE 1

RECURSIVE Gcd(_, _)
Gcd(a, b) == IF b = 0 THEN a ELSE Gcd(b, a % b)

\* a * b stays within NumCap
FitsMul(a, b) == a = 0 \/ b = 0 \/ IAbs(a) <= NumCap \div IAbs(b)

RECURSIVE Pow10(_)
Pow10(k) == IF k <= 0 THEN 1 ELSE 10 * Pow10(k - 1)

\* base^k, or -1 when it exceeds NumCap (base >= 0)
RECURSIVE IPow(_, _)
IPow(base, k) ==
    IF k = 0 THEN 1
    ELSE LET r == IPow(base, k - 1)
         IN  IF r < 0 \/ ~FitsMul(r, base) THEN -1 ELSE r * base

\* the k-th root of n >= 0 when n is a perfect k-th power, else -1
RECURSIVE IRootIn(_, _, _, _)
IRootIn(n, k, lo, hi) ==
    IF lo > hi THEN -1
    ELSE LET mid == (lo + hi) \div 2
             p   == IPow(mid, k)
         IN  IF p = n THEN mid
             ELSE IF p < 0 \/ p > n THEN IRootIn(n, k, lo, mid - 1)
             ELSE IRootIn(n, k, mid + 1, hi)

IRoot(n, k) == IF n < 0 THEN -1 ELSE IRootIn(n, k, 0, IF n < 46341 THEN n ELSE 46341)

\* ------------------------------------------------------------------------
\* Numbers
\* ------------------------------------------------------------------------
\* t: "fin" (n/d * 10^e), "nan", "inf" (n is the sign), "raise"
\* (ZeroDivisionError was raised computing it), "unrep" (outside the model).
\* np: the number is a numpy.float64 scalar.
Num(t, n, d, e, np) == [t |-> t, n |-> n, d |-> d, e |-> e, np |-> np]

Unrep == Num("unrep", 0, 1, 0, FALSE)
Raise == Num("raise", 0, 1, 0, FALSE)
NaN == Num("nan", 0, 1, 0, TRUE)
Inf(s) == Num("inf", s, 1, 0, TRUE)

\* n with its factors of ten moved to the exponent
RECURSIVE StripTens(_, _, _, _)
StripTens(n, d, e, np) ==
    IF n = 0 THEN Num("fin", 0, 1, 0, np)
    ELSE IF n % 10 = 0 THEN StripTens(n \div 10, d, e + 1, np)
    ELSE Num("fin", n, d, e, np)

\* the factors 2 and 5 of the denominator moved to the exponent
RECURSIVE StripDen(_, _, _, _)
StripDen(n, d, e, np) ==
    IF d % 2 = 0
        THEN IF FitsMul(n, 5) THEN StripDen(n * 5, d \div 2, e - 1, np) ELSE Unrep
    ELSE IF d % 5 = 0
        THEN IF FitsMul(n, 2) THEN StripDen(n * 2, d \div 5, e - 1, np) ELSE Unrep
    ELSE StripTens(n, d, e, np)

\* the number n/d * 10^e in canonical form: d > 0 coprime to n and to 10,
\* n not a multiple of 10
Mk(n, d, e, np) ==
    IF d = 0 THEN Unrep
    ELSE LET g  == Gcd(IAbs(n), IAbs(d))
             s  == IF d < 0 THEN -1 ELSE 1
         IN  IF n = 0 THEN Num("fin", 0, 1, 0, np)
             ELSE StripDen(s * (n \div g), IAbs(d) \div g, e, np)

\* a Python number: the literal n/d
R(n, d) == Mk(n, d, 0, FALSE)
\* a Python number: the decimal literal n * 10^-k
Dec(n, k) == Mk(n, 1, -k, FALSE)
I(n) == R(n, 1)

IsFin(x) == x.t = "fin"
IsZero(x) == x.t = "fin" /\ x.n = 0
AsNp(x) == [x EXCEPT !.np = TRUE]
AsPy(x) == [x EXCEPT !.np = FALSE]

\* the first of raise / unrep among the operands, which every operation propagates
Bad(x, y) ==
    IF x.t = "raise" \/ y.t = "raise" THEN Raise ELSE Unrep

IsBad(x) == x.t = "raise" \/ x.t = "unrep"

RNeg(x) ==
    IF x.t = "fin" \/ x.t = "inf" THEN [x EXCEPT !.n = -x.n] ELSE x

RAdd(x, y) ==
    IF IsBad(x) \/ IsBad(y) THEN Bad(x, y)
    ELSE IF x.t = "nan" \/ y.t = "nan" THEN NaN
    ELSE IF x.t = "inf" /\ y.t = "inf" THEN (IF x.n = y.n THEN Inf(x.n) ELSE NaN)
    ELSE IF x.t = "inf" THEN Inf(x.n)
    ELSE IF y.t = "inf" THEN Inf(y.n)
    ELSE LET np == x.np \/ y.np
             e  == IF x.e < y.e THEN x.e ELSE y.e
             sx == x.e - e
             sy == y.e - e
         IN  IF x.n = 0 THEN [y EXCEPT !.np = np]
             ELSE IF y.n = 0 THEN [x EXCEPT !.np = np]
             ELSE IF sx >= Absorb THEN [x EXCEPT !.np = np]
             ELSE IF sy >= Absorb THEN [y EXCEPT !.np = np]
             ELSE IF sx > MaxShift \/ sy > MaxShift THEN Unrep
             ELSE LET px == Pow10(sx)
                      py == Pow10(sy)
                      g  == Gcd(x.d, y.d)
                      mx == y.d \div g
                      my == x.d \div g
                  IN  IF ~FitsMul(x.n, px) \/ ~FitsMul(y.n, py) THEN Unrep
                      ELSE IF ~FitsMul(x.n * px, mx) \/ ~FitsMul(y.n * py, my)
                              \/ ~FitsMul(my, y.d)
                          THEN Unrep
                      ELSE LET a == x.n * px * mx
                               b == y.n * py * my
                           IN  IF IAbs(a) > NumCap - IAbs(b) THEN Unrep
                               ELSE Mk(a + b, my * y.d, e, np)

RSub(x, y) == RAdd(x, RNeg(y))

RMul(x, y) ==
    IF IsBad(x) \/ IsBad(y) THEN Bad(x, y)
    ELSE IF x.t = "nan" \/ y.t = "nan" THEN NaN
    ELSE IF x.t = "inf" \/ y.t = "inf"
        THEN IF x.n = 0 \/ y.n = 0 THEN NaN ELSE Inf(ISign(x.n) * ISign(y.n))
    ELSE LET np == x.np \/ y.np
             g1 == Gcd(IAbs(x.n), y.d)
             g2 == Gcd(IAbs(y.n), x.d)
             a  == x.n \div g1
             b  == y.n \div g2
             c  == x.d \div g2
             d  == y.d \div g1
         IN  IF x.n = 0 \/ y.n = 0 THEN Num("fin", 0, 1, 0, np)
             ELSE IF ~FitsMul(a, b) \/ ~FitsMul(c, d) THEN Unrep
             ELSE Mk(a * b, c * d, x.e + y.e, np)

\* x / y: Python raises ZeroDivisionError when both operands are Python
\* numbers and y is zero; numpy.float64 division gives nan or an infinity
RDiv(x, y) ==
    IF IsBad(x) \/ IsBad(y) THEN Bad(x, y)
    ELSE IF x.t = "nan" \/ y.t = "nan" THEN NaN
    ELSE IF x.t = "inf" THEN (IF y.t = "inf" THEN NaN
                              ELSE Inf(x.n * (IF y.n < 0 THEN -1 ELSE 1)))
    ELSE IF y.t = "inf" THEN Num("fin", 0, 1, 0, TRUE)
    ELSE IF y.n = 0
        THEN IF ~(x.np \/ y.np) THEN Raise
             ELSE IF x.n = 0 THEN NaN ELSE Inf(ISign(x.n))
    ELSE LET np == x.np \/ y.np
             g1 == Gcd(IAbs(x.n), IAbs(y.n))
             g2 == Gcd(x.d, y.d)
             a  == x.n \div g1
             b  == y.d \div g2
             c  == x.d \div g2
             d  == y.n \div g1
         IN  IF x.n = 0 THEN Num("fin", 0, 1, 0, np)
             ELSE IF ~FitsMul(a, b) \/ ~FitsMul(c, d) THEN Unrep
             ELSE Mk(a * b, c * d, x.e - y.e, np)

\* the sign of a finite number
RSign(x) == ISign(x.n)

\* x and y are finite and their order is decided within the model
Comparable(x, y) == IsFin(x) /\ IsFin(y) /\ IsFin(RSub(x, y))

RLt(x, y) == Comparable(x, y) /\ RSign(RSub(x, y)) < 0
RLe(x, y) == Comparable(x, y) /\ RSign(RSub(x, y)) <= 0
RGt(x, y) == RLt(y, x)
RGe(x, y) == RLe(y, x)
\* Python's ==: numeric, whatever the kinds of the two numbers
REq(x, y) == IsFin(x) /\ IsFin(y) /\ x.n = y.n /\ x.d = y.d /\ x.e = y.e

RAbs(x) == IF (x.t = "fin" \/ x.t = "inf") /\ x.n < 0 THEN RNeg(x) ELSE x

\* floor(x) of a finite number, an integer
RFloor(x) ==
    IF x.e >= 0 THEN x.n * Pow10(x.e)
    ELSE LET den == x.d * Pow10(-x.e)
         IN  IF x.n >= 0 THEN x.n \div den ELSE -((-x.n + den - 1) \div den)

\* fmod(x, m), plus m when it is negative; q is x / m
RModOf(x, m, q) ==
    IF ~IsFin(q) THEN Unrep
    ELSE IF RLt(RAbs(q), I(1))
        THEN IF x.n < 0 THEN RAdd(x, [I(m) EXCEPT !.np = x.np]) ELSE x
    ELSE IF -q.e > MaxShift \/ q.e > MaxShift THEN Unrep
    ELSE IF q.e < 0 /\ ~FitsMul(q.d, Pow10(-q.e)) THEN Unrep
    ELSE IF q.e > 0 /\ ~FitsMul(q.n, Pow10(q.e)) THEN Unrep
    ELSE IF ~FitsMul(m, RFloor(q)) THEN Unrep
    ELSE RSub(x, [I(m * RFloor(q)) EXCEPT !.np = x.np])

\* x % m for a positive integer m: the remainder of x / m with the sign of m
RMod(x, m) ==
    IF IsBad(x) THEN x
    ELSE IF ~IsFin(x) THEN NaN
    ELSE RModOf(x, m, RDiv(x, I(m)))

\* (rn/rd)^p * 10^(e/q * p), where rn and rd are the q-th roots of the
\* numerator and the denominator of x
RPowRatio(x, p, q, pn, pd) ==
    IF pn < 0 \/ pd < 0 THEN Unrep ELSE Mk(pn, pd, (x.e \div q) * p, x.np)

RPowOf(x, p, q, rn, rd) ==
    IF rn < 0 \/ rd < 0 THEN Unrep
    ELSE RPowRatio(x, p, q, IPow(rn, p), IPow(rd, p))

\* x^(p/q) for x >= 0, where x is the q-th power of a rational
RPow(x, p, q) ==
    IF IsBad(x) THEN x
    ELSE IF ~IsFin(x) \/ x.n < 0 THEN Unrep
    ELSE IF x.n = 0 THEN x
    ELSE IF x.e % q # 0 THEN Unrep
    ELSE RPowOf(x, p, q, IRoot(x.n, q), IRoot(x.d, q))

\* math.sqrt
Sqrt(x) == AsPy(RPow(x, 1, 2))

\* math.degrees(math.atan2(y, x)), rational on the axes and the diagonals
Atan2Deg(y, x) ==
    IF IsBad(x) \/ IsBad(y) THEN Bad(x, y)
    ELSE IF ~IsFin(x) \/ ~IsFin(y) THEN Unrep
    ELSE IF y.n = 0 THEN (IF x.n >= 0 THEN I(0) ELSE I(180))
    ELSE IF x.n = 0 THEN (IF y.n > 0 THEN I(90) ELSE I(-90))
    ELSE IF REq(RAbs(x), RAbs(y))
        THEN IF x.n > 0 THEN (IF y.n > 0 THEN I(45) ELSE I(-45))
             ELSE (IF y.n > 0 THEN I(135) ELSE I(-135))
    ELSE Unrep

\* the quarter turn of an angle in degrees: 0..3, or -1 off the quarter turns
QuarterOf(r) ==
    IF ~IsFin(r) \/ r.d # 1 \/ r.e < 0 \/ r.e > 2 THEN -1
    ELSE IF (r.n * Pow10(r.e)) % 90 = 0 THEN (r.n * Pow10(r.e)) \div 90 ELSE -1

Quarter(h) == IF ~IsFin(h) THEN -1 ELSE QuarterOf(RMod(h, 360))

\* math.cos(math.radians(h)), rational on the quarter turns
CosQuarter(q) ==
    CASE q = 0 -> I(1) [] q = 1 -> I(0) [] q = 2 -> I(-1) [] q = 3 -> I(0)
      [] OTHER -> Unrep

CosDeg(h) == IF IsBad(h) THEN h ELSE CosQuarter(Quarter(h))

\* math.sin(math.radians(h)), rational on the quarter turns
SinQuarter(q) ==
    CASE q = 0 -> I(0) [] q = 1 -> I(1) [] q = 2 -> I(0) [] q = 3 -> I(-1)
      [] OTHER -> Unrep

SinDeg(h) == IF IsBad(h) THEN h ELSE SinQuarter(Quarter(h))

\* ------------------------------------------------------------------------
\* Triples and results
\* ------------------------------------------------------------------------
Triple(a, b, c) == <<a, b, c>>

AllFin(v) == \A i \in 1..3 : IsFin(v[i])
HasUnrep(v) == \E i \in 1..3 : v[i].t = "unrep"
HasRaise(v) == \E i \in 1..3 : v[i].t = "raise"

\* Python's == on two tuples of numbers
TripleEq(v, w) == \A i \in 1..3 : REq(v[i], w[i])

\* same numbers of the same kinds, nan equal to nan: the same triple
TripleSame(v, w) ==
    \A i \in 1..3 : v[i].t = w[i].t /\ (IsFin(v[i]) => REq(v[i], w[i]))
                    /\ (v[i].t = "inf" => v[i].n = w[i].n)

\* what an operation gives its caller: a new value, an exception, or nothing
Value(tag, v) == [kind |-> "value", tag |-> tag, values |-> v, exc |-> "none"]
Error(exc) == [kind |-> "error", tag |-> "none", values |-> <<>>, exc |-> exc]
NoResult == [kind |-> "none", tag |-> "none", values |-> <<>>, exc |-> "none"]

\* cls(values), or the exception raised while the values were computed
Construct(tag, v) ==
    IF HasRaise(v) THEN Error("ZeroDivisionError") ELSE Value(tag, v)

\* ------------------------------------------------------------------------
\* spaces.py: the conversions
\* ------------------------------------------------------------------------
Spaces == {"XYZ", "xyY", "CIELab", "CIELuv", "LCh", "sRGB", "HSV"}

\* D65 = XYZ((0.95047, 1.0, 1.08883))
D65 == Triple(Dec(95047, 5), I(1), Dec(108883, 5))

\* XYZ.from_xyY
XYZ_from_xyY(v) ==
    LET x  == v[1]
        y  == v[2]
        Y_ == v[3]
    IN  Triple(RDiv(RMul(x, Y_), y),
               Y_,
               RDiv(RMul(RSub(RSub(I(1), x), y), Y_), y))

\* xyY.from_XYZ
xyY_from_XYZ(v) ==
    LET s == RAdd(RAdd(v[1], v[2]), v[3])
    IN  Triple(RDiv(v[1], s), RDiv(v[2], s), v[2])

\* CIELab.f
CIELab_f(t) ==
    IF ~Comparable(t, R(216, 24389)) THEN (IF IsBad(t) THEN t ELSE Unrep)
    ELSE IF RGt(t, R(216, 24389)) THEN RPow(t, 1, 3)
    ELSE RAdd(RMul(R(841, 108), t), R(4, 29))

\* CIELab.f_inv
CIELab_f_inv(t) ==
    IF ~Comparable(t, R(6, 29)) THEN (IF IsBad(t) THEN t ELSE Unrep)
    ELSE IF RGt(t, R(6, 29)) THEN RMul(RMul(t, t), t)
    ELSE RMul(R(108, 841), RSub(t, R(4, 29)))

\* CIELab.from_XYZ
\* CIELab.from_XYZ with the offset of L forgotten
CIELab_of_no_offset(fx, fy, fz) ==
    Triple(RMul(I(116), fy),
           RMul(I(500), RSub(fx, fy)),
           RMul(I(200), RSub(fy, fz)))

CIELab_of(fx, fy, fz) ==
    Triple(RSub(RMul(I(116), fy), I(16)),
           RMul(I(500), RSub(fx, fy)),
           RMul(I(200), RSub(fy, fz)))

CIELab_from_XYZ(v) ==
    CIELab_of(CIELab_f(RDiv(v[1], D65[1])),
              CIELab_f(RDiv(v[2], D65[2])),
              CIELab_f(RDiv(v[3], D65[3])))

\* XYZ.from_CIELab
XYZ_from_CIELab(v) ==
    LET L  == v[1]
        a  == v[2]
        b  == v[3]
        fy == RDiv(RAdd(L, I(16)), I(116))
    IN  Triple(RMul(D65[1], CIELab_f_inv(RAdd(fy, RDiv(a, I(500))))),
               RMul(D65[2], CIELab_f_inv(fy)),
               RMul(D65[3], CIELab_f_inv(RSub(fy, RDiv(b, I(200))))))

\* CIELuv.u_prime
u_prime(v) ==
    RDiv(RMul(I(4), v[1]),
         RAdd(RAdd(v[1], RMul(I(15), v[2])), RMul(I(3), v[3])))

\* CIELuv.v_prime
v_prime(v) ==
    RDiv(RMul(I(9), v[2]),
         RAdd(RAdd(v[1], RMul(I(15), v[2])), RMul(I(3), v[3])))

\* CIELuv.from_XYZ
\* CIELuv.from_XYZ: _L
CIELuv_L(Y_) ==
    IF ~Comparable(Y_, R(216, 24389)) THEN (IF IsBad(Y_) THEN Y_ ELSE Unrep)
    ELSE IF RGt(Y_, R(216, 24389))
        THEN RSub(RMul(I(116), RPow(RDiv(Y_, D65[2]), 1, 3)), I(16))
    ELSE RDiv(RMul(R(24389, 27), Y_), D65[2])

\* CIELuv.from_XYZ: (_L, u, v) from _L
CIELuv_of(v, L) ==
    Triple(L,
           RMul(RMul(I(13), L), RSub(u_prime(v), u_prime(D65))),
           RMul(RMul(I(13), L), RSub(v_prime(v), v_prime(D65))))

CIELuv_from_XYZ(v) == CIELuv_of(v, CIELuv_L(v[2]))

\* XYZ.from_CIELuv: _Y
CIELuv_Y(L) ==
    IF ~Comparable(L, I(8)) THEN (IF IsBad(L) THEN L ELSE Unrep)
    ELSE IF RGt(L, I(8))
        THEN RPow(RDiv(RAdd(L, I(16)), I(116)), 3, 1)
    ELSE RDiv(RMul(L, I(27)), I(24389))

\* XYZ.from_CIELuv: a
CIELuv_a(L, u, u_0) ==
    RMul(R(1, 3),
         RSub(RDiv(RMul(I(52), L), RAdd(u, RMul(RMul(I(13), L), u_0))), I(1)))

\* XYZ.from_CIELuv: d
CIELuv_d(L, v, v_0, Y_) ==
    RMul(Y_, RSub(RDiv(RMul(I(39), L), RAdd(v, RMul(RMul(I(13), L), v_0))), I(5)))

\* XYZ.from_CIELuv: (_X, _Y, _Z) from _X
XYZ_of_X(X_, Y_, a, b) == Triple(X_, Y_, RAdd(RMul(X_, a), b))

\* XYZ.from_CIELuv: the 2x2 system solved for _X
XYZ_solve(Y_, a, b, c, d) == XYZ_of_X(RDiv(RSub(d, b), RSub(a, c)), Y_, a, b)

\* XYZ.from_CIELuv: b, c and d from _Y
XYZ_from_Luv_Y(L, u, v, Y_) ==
    XYZ_solve(Y_, CIELuv_a(L, u, u_prime(D65)), RMul(I(-5), Y_), RNeg(R(1, 3)),
              CIELuv_d(L, v, v_prime(D65), Y_))

\* XYZ.from_CIELuv
XYZ_from_CIELuv(cieluv) ==
    XYZ_from_Luv_Y(cieluv[1], cieluv[2], cieluv[3], CIELuv_Y(cieluv[1]))

\* UniformColorSpace.LCh: the hue, after the add-360-when-negative step
LCh_wrap(h) ==
    IF ~IsFin(h) THEN h
    ELSE IF h.n < 0 THEN RAdd(h, I(360)) ELSE h

\* UniformColorSpace.LCh: h
LCh_hue(x, y) == LCh_wrap(Atan2Deg(y, x))

\* UniformColorSpace.LCh
LCh(v) ==
    Triple(v[1], Sqrt(RAdd(RMul(v[2], v[2]), RMul(v[3], v[3]))), LCh_hue(v[2], v[3]))

\* UniformColorSpace.from_LCh
from_LCh(v) ==
    Triple(v[1], RMul(v[2], CosDeg(v[3])), RMul(v[2], SinDeg(v[3])))

\* max and min of Python: the first of the largest (smallest)
Max2(a, b) == IF RGt(b, a) THEN b ELSE a
Min2(a, b) == IF RLt(b, a) THEN b ELSE a
Max3(a, b, c) == Max2(Max2(a, b), c)
Min3(a, b, c) == Min2(Min2(a, b), c)

\* sRGB.HSV: _H, from _M and _C
HSV_hue(R_, G_, B_, M_, C) ==
    IF IsZero(C) THEN I(0)
    ELSE IF REq(M_, R_) THEN RMul(I(60), RMod(RDiv(RSub(G_, B_), C), 6))
    ELSE IF REq(M_, G_) THEN RMul(I(60), RAdd(RDiv(RSub(B_, R_), C), I(2)))
    ELSE RMul(I(60), RAdd(RDiv(RSub(R_, G_), C), I(4)))

\* sRGB.HSV: _S
HSV_sat(M_, C) == IF IsZero(M_) THEN I(0) ELSE RDiv(C, M_)

\* sRGB.HSV: (_H, _S, _V) from _M and _C
HSV_of(v, M_, C) ==
    IF ~IsFin(C) THEN Triple(Unrep, Unrep, Unrep)
    ELSE Triple(HSV_hue(v[1], v[2], v[3], M_, C), HSV_sat(M_, C), M_)

\* sRGB.HSV: _C = _M - m
HSV_chroma(v, M_, m) == HSV_of(v, M_, RSub(M_, m))

\* sRGB.HSV
sRGB_HSV(v) ==
    IF ~Comparable(v[1], v[2]) \/ ~Comparable(v[2], v[3]) \/ ~Comparable(v[1], v[3])
        THEN Triple(Unrep, Unrep, Unrep)
    ELSE HSV_chroma(v, Max3(v[1], v[2], v[3]), Min3(v[1], v[2], v[3]))

\* sRGB.gamma_expand: expand
expand(c) ==
    IF ~Comparable(c, Dec(4045, 5)) THEN (IF IsBad(c) THEN c ELSE Unrep)
    ELSE IF RLe(c, Dec(4045, 5)) THEN RDiv(c, Dec(1292, 2))
    ELSE RPow(RDiv(RAdd(c, Dec(55, 3)), Dec(1055, 3)), 12, 5)

\* sRGB.gamma_compress: compress
compress(c) ==
    IF ~Comparable(c, Dec(31308, 7)) THEN (IF IsBad(c) THEN c ELSE Unrep)
    ELSE IF RLe(c, Dec(31308, 7)) THEN RMul(Dec(1292, 2), c)
    ELSE RSub(RMul(Dec(1055, 3), RPow(c, 5, 12)), Dec(55, 3))

\* sRGB.gamma_expand: the values it assigns to self.values
gamma_expand(v) == Triple(expand(v[1]), expand(v[2]), expand(v[3]))

\* sRGB.gamma_compress: the values it assigns to self.values
gamma_compress(v) == Triple(compress(v[1]), compress(v[2]), compress(v[3]))

\* _M @ v of numpy: a vector of numpy.float64
MatVec(m, v) ==
    [i \in 1..3 |->
        AsNp(RAdd(RAdd(RMul(m[i][1], v[1]), RMul(m[i][2], v[2])),
                  RMul(m[i][3], v[3])))]

\* the matrix _M of XYZ.from_sRGB
M_sRGB_to_XYZ ==
    << <<Dec(4124564, 7), Dec(3575761, 7), Dec(1804375, 7)>>,
       <<Dec(2126729, 7), Dec(7151522, 7), Dec(721750, 7)>>,
       <<Dec(193339, 7), Dec(1191920, 7), Dec(9503041, 7)>> >>

\* the matrix _M of sRGB.from_XYZ
M_XYZ_to_sRGB ==
    << <<Dec(32404542, 7), Dec(-15371385, 7), Dec(-4985314, 7)>>,
       <<Dec(-9692660, 7), Dec(18760108, 7), Dec(415560, 7)>>,
       <<Dec(556434, 7), Dec(-2040259, 7), Dec(10572252, 7)>> >>

\* XYZ.from_sRGB: the values of the XYZ it returns; srgb.gamma_expand() has
\* already replaced the values of the sRGB object by gamma_expand(v)
XYZ_from_sRGB(v) == MatVec(M_sRGB_to_XYZ, gamma_expand(v))

\* sRGB.from_XYZ
sRGB_from_XYZ(v) == gamma_compress(MatVec(M_XYZ_to_sRGB, v))

\* sRGB.from_HSV: the branch of the if chain that _H (already divided by
\* 60) takes, 0 for the first and 5 for the else
\* sRGB.from_HSV with closed sectors: <= where the code has <
HSV_sector_closed(H) ==
    IF RLe(H, I(1)) THEN 0
    ELSE IF RLe(H, I(2)) THEN 1
    ELSE IF RLe(H, I(3)) THEN 2
    ELSE IF RLe(H, I(4)) THEN 3
    ELSE IF RLe(H, I(5)) THEN 4
    ELSE 5

HSV_sector(H) ==
    IF RLt(H, I(1)) THEN 0
    ELSE IF RLt(H, I(2)) THEN 1
    ELSE IF RLt(H, I(3)) THEN 2
    ELSE IF RLt(H, I(4)) THEN 3
    ELSE IF RLt(H, I(5)) THEN 4
    ELSE 5

\* sRGB.from_HSV: _R, _G, _B of the branch k
HSV_branch(k, C, X_) ==
    CASE k = 0 -> Triple(C, X_, I(0))
      [] k = 1 -> Triple(X_, C, I(0))
      [] k = 2 -> Triple(I(0), C, X_)
      [] k = 3 -> Triple(I(0), X_, C)
      [] k = 4 -> Triple(X_, I(0), C)
      [] OTHER -> Triple(C, I(0), X_)

\* sRGB.from_HSV: cls((_R + m, _G + m, _B + m))
HSV_shift(rgb, m) == Triple(RAdd(rgb[1], m), RAdd(rgb[2], m), RAdd(rgb[3], m))

\* sRGB.from_HSV: _X = _C * (1 - abs(_H % 2 - 1))
HSV_X(C, H) == RMul(C, RSub(I(1), RAbs(RSub(RMod(H, 2), I(1)))))

\* sRGB.from_HSV: from _C and _H / 60
sRGB_of_CH(V, C, H) ==
    IF ~Comparable(H, I(5)) THEN Triple(Unrep, Unrep, Unrep)
    ELSE HSV_shift(HSV_branch(HSV_sector(H), C, HSV_X(C, H)), RSub(V, C))

\* sRGB.from_HSV
sRGB_from_HSV(v) == sRGB_of_CH(v[3], RMul(v[3], v[2]), RDiv(v[1], I(60)))

\* ------------------------------------------------------------------------
\* The values the model constructs and assigns
\* ------------------------------------------------------------------------
Grid(A, B, C) == {Triple(a, b, c) : a \in A, b \in B, c \in C}

\* a number below half an ulp of 1
Tiny == Dec(1, 40)

sRGB_channels == {R(-1, 2), I(0), Tiny, R(1, 25), R(1, 2), I(1)}

HSV_hues == {I(30 * k) : k \in 0..12} \cup {I(15), I(345)}

XYZ_inputs ==
    Grid({I(0), R(1, 4), R(1, 2), I(1)}, {I(0), R(1, 4), R(1, 2), I(1)},
         {I(0), R(1, 4), R(1, 2), I(1)})
    \cup Grid({RMul(D65[1], k) : k \in {I(1), R(1, 8), R(1, 1000)}},
              {RMul(D65[2], k) : k \in {I(1), R(1, 8), R(1, 1000)}},
              {RMul(D65[3], k) : k \in {I(1), R(1, 8), R(1, 1000)}})
    \cup {Triple(I(1), I(-1), I(0)), Triple(R(1, 2), R(1, 2), I(-1)),
          Triple(I(1), Tiny, I(0)), Triple(I(1), Tiny, I(-1))}

Inputs(tag) ==
    CASE tag = "XYZ" -> XYZ_inputs
      [] tag = "xyY" -> Grid({I(0), R(1, 4), R(1, 3), R(1, 2)},
                             {I(0), R(1, 4), R(1, 3), R(1, 2)},
                             {I(0), R(1, 2), I(1)})
      [] tag = "CIELab" -> Grid({I(0), I(50), I(100)}, {I(-3), I(0), I(4)},
                                {I(-3), I(0), I(4)})
      [] tag = "CIELuv" -> Grid({I(0), I(50), I(100)}, {I(-3), I(0), I(4)},
                                {I(-3), I(0), I(4)})
      [] tag = "LCh" -> Grid({I(0), I(50), I(100)}, {I(0), I(2)},
                             {I(0), I(45), I(90), I(180), I(270)})
      [] tag = "sRGB" -> Grid(sRGB_channels, sRGB_channels, sRGB_channels)
      [] tag = "HSV" -> Grid(HSV_hues, {I(0), Tiny, R(1, 2), I(1)},
                             {I(0), R(1, 2), I(1)})

\* the values a caller assigns to an existing Color
Assigned(tag) ==
    {v \in Inputs(tag) : \A i \in 1..3 : v[i] \in {I(0), R(1, 25), I(1)}
                                          /\ (i > 1 => v[i] = v[1])}

\* ------------------------------------------------------------------------
\* State
\* ------------------------------------------------------------------------
VARIABLES
    obj,     \* Color._color: the value object, [tag, values]
    space0,  \* the space the Color was constructed with
    given,   \* the values the caller last gave obj (constructor, values
             \* setter, explicit gamma_expand / gamma_compress call)
    arg,     \* obj.values when the last conversion was called (obj.values
             \* itself after any other operation)
    res,     \* what the last operation gave the caller
    op,      \* the last operation: <<source space, target space>> of a
             \* conversion, <<"call", name>> of another operation
    prev,    \* the value whose conversion returned obj, [tag, values]
    chain,   \* conversions chained up to obj
    gammas,  \* in-place gamma steps on obj
    origin   \* the space of the value the chain of conversions started from

vars == <<obj, space0, given, arg, res, op, prev, chain, gammas, origin>>

Obj(tag, v) == [tag |-> tag, values |-> v]
NoObj == Obj("none", <<>>)

\* the conversion properties with the sRGB property of HSV left out
Edges_without_HSV_sRGB ==
    { <<"XYZ", "xyY">>, <<"XYZ", "CIELab">>, <<"XYZ", "CIELuv">>, <<"XYZ", "sRGB">>,
      <<"xyY", "XYZ">>,
      <<"CIELab", "XYZ">>, <<"CIELab", "LCh">>,
      <<"CIELuv", "XYZ">>, <<"CIELuv", "LCh">>,
      <<"LCh", "CIELab">>, <<"LCh", "CIELuv">>,
      <<"sRGB", "XYZ">>, <<"sRGB", "HSV">> }

\* the conversion properties the space classes expose: <<class, property>>
Edges ==
    { <<"XYZ", "xyY">>, <<"XYZ", "CIELab">>, <<"XYZ", "CIELuv">>, <<"XYZ", "sRGB">>,
      <<"xyY", "XYZ">>,
      <<"CIELab", "XYZ">>, <<"CIELab", "LCh">>,
      <<"CIELuv", "XYZ">>, <<"CIELuv", "LCh">>,
      <<"LCh", "CIELab">>, <<"LCh", "CIELuv">>,
      <<"sRGB", "XYZ">>, <<"sRGB", "HSV">>,
      <<"HSV", "sRGB">> }

\* Color.__init__: self._color = color_spaces[space](values)
Init ==
    \E tag \in Spaces : \E v \in Inputs(tag) :
        /\ obj = Obj(tag, v)
        /\ space0 = tag
        /\ given = v
        /\ arg = v
        /\ res = NoResult
        /\ op = <<"call", "__init__">>
        /\ prev = NoObj
        /\ chain = 0
        /\ gammas = 0
        /\ origin = tag

\* the values of the value that the property `dst` of a `src` object holding
\* v returns
Converted(src, dst, v) ==
    CASE src = "XYZ" /\ dst = "xyY" -> xyY_from_XYZ(v)
      [] src = "XYZ" /\ dst = "CIELab" -> CIELab_from_XYZ(v)
      [] src = "XYZ" /\ dst = "CIELuv" -> CIELuv_from_XYZ(v)
      [] src = "XYZ" /\ dst = "sRGB" -> sRGB_from_XYZ(v)
      [] src = "xyY" /\ dst = "XYZ" -> XYZ_from_xyY(v)
      [] src = "CIELab" /\ dst = "XYZ" -> XYZ_from_CIELab(v)
      [] src = "CIELuv" /\ dst = "XYZ" -> XYZ_from_CIELuv(v)
      [] src \in {"CIELab", "CIELuv"} /\ dst = "LCh" -> LCh(v)
      [] src = "LCh" /\ dst \in {"CIELab", "CIELuv"} -> from_LCh(v)
      [] src = "sRGB" /\ dst = "XYZ" -> XYZ_from_sRGB(v)
      [] src = "sRGB" /\ dst = "HSV" -> sRGB_HSV(v)
      [] src = "HSV" /\ dst = "sRGB" -> sRGB_from_HSV(v)

\* reading the property `dst` of a `src` object: `out` are the values of the
\* value the property returns, `after` the values the object then holds
Read(src, dst, out, after) ==
    /\ obj.tag = src
    /\ <<src, dst>> \in Edges
    /\ AllFin(obj.values)
    /\ ~HasUnrep(out)
    /\ ~HasUnrep(after)
    /\ res' = Construct(dst, out)
    /\ obj' = Obj(src, after)
    /\ arg' = obj.values
    /\ op' = <<src, dst>>
    /\ UNCHANGED <<space0, given, prev, chain, origin>>

\* a property that leaves the object alone
Pure(src, dst, out) == Read(src, dst, out, obj.values) /\ UNCHANGED gammas

XYZ_xyY == Pure("XYZ", "xyY", xyY_from_XYZ(obj.values))
XYZ_CIELab == Pure("XYZ", "CIELab", CIELab_from_XYZ(obj.values))
XYZ_CIELuv == Pure("XYZ", "CIELuv", CIELuv_from_XYZ(obj.values))
XYZ_sRGB == Pure("XYZ", "sRGB", sRGB_from_XYZ(obj.values))
xyY_XYZ == Pure("xyY", "XYZ", XYZ_from_xyY(obj.values))
CIELab_XYZ == Pure("CIELab", "XYZ", XYZ_from_CIELab(obj.values))
CIELab_LCh == Pure("CIELab", "LCh", LCh(obj.values))
CIELuv_XYZ == Pure("CIELuv", "XYZ", XYZ_from_CIELuv(obj.values))
CIELuv_LCh == Pure("CIELuv", "LCh", LCh(obj.values))
LCh_CIELab == Pure("LCh", "CIELab", from_LCh(obj.values))
LCh_CIELuv == Pure("LCh", "CIELuv", from_LCh(obj.values))
sRGB_HSV_read == Pure("sRGB", "HSV", sRGB_HSV(obj.values))
HSV_sRGB == Pure("HSV", "sRGB", sRGB_from_HSV(obj.values))

\* sRGB.XYZ: XYZ.from_sRGB calls srgb.gamma_expand(), which assigns the
\* expanded values to the sRGB object itself, and multiplies them by _M
sRGB_XYZ ==
    /\ gammas < MaxGamma
    /\ Read("sRGB", "XYZ", XYZ_from_sRGB(obj.values), gamma_expand(obj.values))
    /\ gammas' = gammas + 1

\* the caller goes on with the value the last conversion returned
Adopt ==
    /\ res.kind = "value"
    /\ op[1] # "call"
    /\ chain < MaxChain
    /\ obj' = Obj(res.tag, res.values)
    /\ space0' = res.tag
    /\ given' = res.values
    /\ arg' = res.values
    /\ prev' = Obj(obj.tag, arg)
    /\ res' = NoResult
    /\ op' = <<"call", "adopt">>
    /\ chain' = chain + 1
    /\ gammas' = 0
    /\ UNCHANGED origin

\* Color.values setter: self._color.values = values
SetValues(v) ==
    /\ obj' = [obj EXCEPT !.values = v]
    /\ given' = v
    /\ arg' = v
    /\ res' = NoResult
    /\ op' = <<"call", "values">>
    /\ prev' = NoObj
    /\ gammas' = 0
    /\ UNCHANGED <<space0, chain, origin>>

\* a space setter that rewraps the values in the class of the space s
SetSpace_rewraps(s) ==
    /\ obj' = [obj EXCEPT !.tag = s]
    /\ res' = NoResult
    /\ op' = <<"call", "space">>
    /\ arg' = obj.values
    /\ UNCHANGED <<space0, given, prev, chain, gammas, origin>>

\* Color.space setter: raise NotImplementedError
SetSpace(s) ==
    /\ res' = Error("NotImplementedError")
    /\ op' = <<"call", "space">>
    /\ arg' = obj.values
    /\ UNCHANGED <<obj, space0, given, prev, chain, gammas, origin>>

\* an explicit call of sRGB.gamma_expand / sRGB.gamma_compress on the value:
\* self.values = tuple(map(..., self.values)); return self
Gamma(name, after) ==
    /\ obj.tag = "sRGB"
    /\ AllFin(obj.values)
    /\ ~HasUnrep(after)
    /\ gammas < MaxGamma
    /\ obj' = [obj EXCEPT !.values = after]
    /\ given' = after
    /\ arg' = after
    /\ res' = NoResult
    /\ op' = <<"call", name>>
    /\ prev' = NoObj
    /\ gammas' = gammas + 1
    /\ UNCHANGED <<space0, chain, origin>>

GammaExpand == Gamma("gamma_expand", gamma_expand(obj.values))
GammaCompress == Gamma("gamma_compress", gamma_compress(obj.values))

Next ==
    \/ XYZ_xyY \/ XYZ_CIELab \/ XYZ_CIELuv \/ XYZ_sRGB
    \/ xyY_XYZ
    \/ CIELab_XYZ \/ CIELab_LCh
    \/ CIELuv_XYZ \/ CIELuv_LCh
    \/ LCh_CIELab \/ LCh_CIELuv
    \/ sRGB_XYZ \/ sRGB_HSV_read
    \/ HSV_sRGB
    \/ Adopt
    \/ \E v \in Assigned(obj.tag) : SetValues(v)
    \/ \E s \in Spaces : SetSpace(s)
    \/ GammaExpand
    \/ GammaCompress

Spec == Init /\ [][Next]_vars

\* ------------------------------------------------------------------------
\* Properties
\* ------------------------------------------------------------------------
IsConversion == op \in Edges

\* 0 <= h < 360
InHueRange(h) == RLe(I(0), h) /\ RLt(h, I(360))

\* 0 <= c <= 1 for every component
InUnit(v) == \A i \in 1..3 : RLe(I(0), v[i]) /\ RLe(v[i], I(1))

\* 0 < c <= 1
InUnitPos(c) == RLt(I(0), c) /\ RLe(c, I(1))

\* obj is the value a conversion of prev returned, as it was returned
Returned(src) == prev.tag = src /\ TripleSame(arg, given)

\* C1: every conversion is a pure function of its input: after the
\* conversion returns, the source value holds the triple and the tag it held
\* before the call.
C1_ConversionsArePure ==
    IsConversion => obj.tag = op[1] /\ TripleSame(obj.values, arg)

\* C2: converting an XYZ value with X + Y + Z = 0 to xyY signals an error and
\* yields no result value, however the XYZ value was obtained (constructed
\* from three numbers, or returned by a previous conversion).
C2_ZeroSumSignalsError ==
    (op = <<"XYZ", "xyY">> /\ IsZero(RAdd(RAdd(arg[1], arg[2]), arg[3])))
        => res.kind = "error"

\* C3: the hue that sRGB -> HSV returns and the hue that CIELab / CIELuv ->
\* LCh returns satisfy 0 <= h < 360, for all inputs.
C3_HueInRange ==
    /\ (op = <<"sRGB", "HSV">> /\ res.kind = "value") => InHueRange(res.values[1])
    /\ (op \in {<<"CIELab", "LCh">>, <<"CIELuv", "LCh">>} /\ res.kind = "value")
           => InHueRange(res.values[3])

\* C4: HSV -> sRGB applied to sRGB -> HSV of an sRGB triple with channels in
\* [0,1] returns the original triple, and sRGB -> HSV applied to HSV -> sRGB
\* of an HSV triple with 0 <= H < 360, 0 < S <= 1, 0 < V <= 1 returns the
\* original triple.
C4_sRGB_HSV_RoundTrip ==
    /\ (op = <<"HSV", "sRGB">> /\ Returned("sRGB") /\ InUnit(prev.values))
           => res.kind = "value" /\ TripleEq(res.values, prev.values)
    /\ (op = <<"sRGB", "HSV">> /\ Returned("HSV")
            /\ InHueRange(prev.values[1])
            /\ InUnitPos(prev.values[2]) /\ InUnitPos(prev.values[3]))
           => res.kind = "value" /\ TripleEq(res.values, prev.values)

WhitePoint == Triple(Dec(95047, 5), I(1), Dec(108883, 5))

\* C6: XYZ -> CIELab and XYZ -> CIELuv applied to the white point
\* (0.95047, 1.0, 1.08883) return (100, 0, 0): every channel has ratio 1 to
\* the reference white and takes the cube-root branch.
C6_WhiteIsFixedPoint ==
    (op \in {<<"XYZ", "CIELab">>, <<"XYZ", "CIELuv">>} /\ TripleEq(arg, WhitePoint))
        => /\ res.kind = "value"
           /\ TripleEq(res.values, Triple(I(100), I(0), I(0)))
           /\ \A i \in 1..3 : REq(CIELab_f(RDiv(arg[i], D65[i])), I(1))

C6_Witness ==
    /\ op = <<"XYZ", "CIELab">>
    /\ TripleEq(arg, WhitePoint)
    /\ res.kind = "value"
    /\ res.tag = "CIELab"

\* the n of the half-open interval [n, n + 1) that holds h, for 0 <= h < 6
SectorOf(h) == CHOOSE n \in 0..5 : RLe(I(n), h) /\ RLt(h, I(n + 1))

\* C * (1 - |h mod 2 - 1|)
SecondLargest(C, h) == RMul(C, RSub(I(1), RAbs(RSub(RMod(h, 2), I(1)))))

\* the sRGB triple of (H, S, V) as the claim C7 states it, h being H / 60
Reconstructed(v, h) ==
    HSV_shift(HSV_branch(SectorOf(h), RMul(v[3], v[2]),
                         SecondLargest(RMul(v[3], v[2]), h)),
              RSub(v[3], RMul(v[3], v[2])))

\* C7: HSV -> sRGB selects the hue sector by the half-open intervals
\* [n*60, (n+1)*60), n = 0..5, with C = V*S, X = C*(1 - |H/60 mod 2 - 1|) and
\* m = V - C added to each channel; a hue on a boundary n*60 is in sector n;
\* (0,1,1), (120,1,1), (240,1,1) give (1,0,0), (0,1,0), (0,0,1).
C7_HalfOpenSectors ==
    (op = <<"HSV", "sRGB">> /\ InHueRange(arg[1]))
        => /\ HSV_sector(RDiv(arg[1], I(60))) = SectorOf(RDiv(arg[1], I(60)))
           /\ res.kind = "value"
           /\ TripleEq(res.values, Reconstructed(arg, RDiv(arg[1], I(60))))
           /\ \A n \in 0..2 :
                  TripleEq(arg, Triple(I(120 * n), I(1), I(1)))
                      => TripleEq(res.values,
                                  Triple(I(IF n = 0 THEN 1 ELSE 0),
                                         I(IF n = 1 THEN 1 ELSE 0),
                                         I(IF n = 2 THEN 1 ELSE 0)))

C7_Witness ==
    /\ op = <<"HSV", "sRGB">>
    /\ TripleEq(arg, Triple(I(120), I(1), I(1)))
    /\ res.kind = "value"
    /\ TripleEq(res.values, Triple(I(0), I(1), I(0)))

\* the spaces reached from the spaces of S by at most k conversions
RECURSIVE ReachedFrom(_, _)
ReachedFrom(S, k) ==
    IF k = 0 THEN S
    ELSE ReachedFrom(S \cup {e[2] : e \in {f \in Edges : f[1] \in S}}, k - 1)

\* C8: every space converts to XYZ and is obtained from XYZ by the
\* conversions the classes expose (LCh through CIELab / CIELuv, HSV through
\* sRGB), so every space is reached from every space by a finite chain of
\* conversions; a conversion's result carries the tag of its target space.
C8_XYZ_IsHub ==
    /\ \A a \in {"xyY", "CIELab", "CIELuv", "sRGB"} :
           <<a, "XYZ">> \in Edges /\ <<"XYZ", a>> \in Edges
    /\ \A a \in {"CIELab", "CIELuv"} :
           <<"LCh", a>> \in Edges /\ <<a, "LCh">> \in Edges
    /\ <<"HSV", "sRGB">> \in Edges /\ <<"sRGB", "HSV">> \in Edges
    /\ \A a \in Spaces : ReachedFrom({a}, Cardinality(Spaces)) = Spaces
    /\ IsConversion => obj.tag = op[1]
    /\ (IsConversion /\ res.kind = "value") => res.tag = op[2]

\* a chain of conversions from LCh has arrived in HSV
C8_Witness ==
    /\ origin = "LCh"
    /\ chain = MaxChain
    /\ op = <<"sRGB", "HSV">>
    /\ res.kind = "value"
    /\ res.tag = "HSV"

\* C9: the space of a Color never changes after construction: values
\* assignments replace the triple only, a space assignment fails with
\* NotImplementedError and changes neither the tag nor the values, and the
\* gamma steps of the wrapped value leave the tag alone.
C9_SpaceNeverChanges ==
    /\ obj.tag = space0
    /\ op = <<"call", "space">>
           => res = Error("NotImplementedError") /\ TripleSame(obj.values, arg)
    /\ op = <<"call", "values">> => TripleSame(obj.values, given)

\* a space assignment has failed on an sRGB value after a gamma step
C9_Witness ==
    /\ op = <<"call", "space">>
    /\ res = Error("NotImplementedError")
    /\ obj.tag = "sRGB"
    /\ space0 = "sRGB"
    /\ gammas > 0

\* C10: a conversion returns the result it returns on the values the caller
\* gave the object, whatever conversions of the object were requested
\* before: the same conversion twice in succession returns equal results,
\* and a conversion after another conversion returns what it returns when
\* requested first.
C10_HistoryIndependent ==
    (IsConversion /\ ~HasUnrep(Converted(op[1], op[2], given)))
        => res = Construct(op[2], Converted(op[1], op[2], given))
====
